---- MODULE Spec2Model ----
(***************************************************************************)
(* State-machine model of inookulate.py: the AuthenticationToken session   *)
(* (cookie jar, authenticated flag, persisted cookie file), the backend    *)
(* functions get_cchash, get_library, get_license, save_file and           *)
(* download_book, and the B&N server as the environment that answers the   *)
(* requests.  Every Python function is an operator from a world record     *)
(* (token fields, cookie file, output files, requests sent) and the        *)
(* responses it receives to an outcome [w, exc, val]; every action is one  *)
(* call of a public function by the program's caller.                      *)
(*                                                                         *)
(* Cookie lifetimes (wall-clock expiry inside http.cookiejar) are not      *)
(* modelled: a cookie leaves a jar only by being overwritten.              *)
(***************************************************************************)
EXTENDS Integers, Sequences, FiniteSets, TLC

VARIABLES constructed, authenticated, cookies, store, disk, valid, op, inp, ret, sent,
          pc, cli

vars == <<constructed, authenticated, cookies, store, disk, valid, op, inp, ret, sent,
          pc, cli>>

\* ------------------------------------------------------------------ bounds
\* Session-cookie values the server can issue are 1..MaxSess (0: no cookie).
MaxSess == 1
SessIds == 1..MaxSess
\* The delivery ids the caller asks for.
Ids == {12345}

\* ------------------------------------------------------------ Python values
None == "<None>"
PyBool(b) == IF b THEN "True" ELSE "False"

\* Outcome of a call: the world it leaves, the exception it raised ("" when
\* it returned) and the value it returned.
Return(w, v) == [w |-> w, exc |-> "", val |-> v]
Raise(w, e, m) == [w |-> w, exc |-> e, val |-> m]

\* urllib.error.URLError, FileNotFoundError and http.cookiejar.LoadError are
\* subclasses of OSError, so "except OSError" catches all of them.
IsOSError(e) == e \in {"OSError", "URLError", "FileNotFoundError", "LoadError"}

\* ------------------------------------------------------------- cookie jars
CookieNames == {"sess", "aux"}
Jars == {j \in [CookieNames -> 0..MaxSess] : j["aux"] <= 1}
EmptyJar == [n \in CookieNames |-> 0]
\* The cookie file: absent, unreadable as a cookie file, or holding a jar.
NoFile == [state |-> "absent", jar |-> EmptyJar]
Corrupt == [state |-> "corrupt", jar |-> EmptyJar]
CookieFile(jar) == [state |-> "ok", jar |-> jar]

\* CookieJar.extract_cookies / FileCookieJar.load: every cookie read is set
\* in the jar, replacing the cookie of the same name; the others stay.
Merge(jar, new) == [n \in CookieNames |-> IF new[n] # 0 THEN new[n] ELSE jar[n]]

\* ----------------------------------------------------------------- requests
Send(w, req) == [w EXCEPT !.sent = Append(@, req)]

Kinds(s) == {s[i].kind : i \in 1..Len(s)}

\* The call with outcome o sent a request of the given kind.
Reaches(o, kind) == kind \in Kinds(o.w.sent)

\* Every caller passes its token, so the request carries the token's
\* cookies; auth records the token's flag at the moment of sending.
prepare_request(kind, token) ==
    [kind |-> kind,
     referer |-> "bnereader.barnesandnoble.com",
     agent |-> "BN ClientAPI Java/1.0.0.0 (bravo;bravo;1.5.0;P001000021)",
     cookie |-> token.cookies,
     auth |-> token.authenticated]

\* ------------------------------------------------------- server responses
\* Answers to the credit-card-hash request.  The server reports
\* 300_FEEngine only for a session it does not accept, and hands out the
\* hash only for one it accepts; it may also answer with another error and
\* no hash, or not answer at all (URLError).
ProbeResponses(jar, v) ==
    {r \in [net : {"ok", "URLError"}, e300 : BOOLEAN, otherErr : BOOLEAN,
            hash : {None, "H"}] :
        /\ r.net = "URLError" => (~r.e300 /\ ~r.otherErr /\ r.hash = None)
        /\ r.e300 => (jar["sess"] \notin v /\ ~r.otherErr /\ r.hash = None)
        /\ (r.net = "ok" /\ ~r.e300 /\ r.hash # None) => jar["sess"] \in v
        /\ (r.net = "ok" /\ ~r.e300 /\ r.hash = None) => r.otherErr
        /\ (r.hash # None) => ~r.otherErr}

\* Answers to the login request: signedIn is "1" for good credentials and
\* "0" for bad ones; the node may be missing; a "1" answer sets a session
\* cookie.
LoginResponses(good) ==
    {r \in [net : {"ok", "URLError"}, signedIn : {None, "0", "1"},
            setCookies : Jars] :
        /\ r.net = "URLError" => (r.signedIn = None /\ r.setCookies = EmptyJar)
        /\ r.signedIn = "1" => (good /\ r.setCookies["sess"] # 0)
        /\ r.signedIn = "0" => (~good /\ r.setCookies["sess"] = 0)
        /\ (r.net = "ok" /\ r.signedIn = None) => r.setCookies = EmptyJar}

NoResponse == [net |-> "none"]

\* ----------------------------------------------------------- backend: auth
get_cchash_unguarded300(w, r) ==
    LET w1 == Send(w, prepare_request("cchash", w)) IN
    IF r.net # "ok" THEN Raise(w1, r.net, "")
    ELSE IF r.hash = None THEN Raise(w1, "AttributeError", "")
    ELSE Return(w1, r.hash)

\* get_cchash that itself clears the flag when the server reports an invalid
\* session.
get_cchash_clearing(w, r) ==
    LET w1 == Send(w, prepare_request("cchash", w)) IN
    IF r.net # "ok" THEN Raise(w1, r.net, "")
    ELSE IF r.e300
         THEN Raise([w1 EXCEPT !.authenticated = FALSE], "NotAuthenticatedError", "")
    ELSE IF r.hash = None THEN Raise(w1, "AttributeError", "")
    ELSE Return(w1, r.hash)

get_cchash(w, r) ==
    LET w1 == Send(w, prepare_request("cchash", w)) IN
    IF r.net # "ok" THEN Raise(w1, r.net, "")
    ELSE IF r.e300 THEN Raise(w1, "NotAuthenticatedError", "")
    ELSE IF r.hash = None THEN Raise(w1, "AttributeError", "")
    ELSE Return(w1, r.hash)

\* update_state that also drops the rejected cookies and rewrites the file.
update_state_forgetting(w, r) ==
    LET g == get_cchash([w EXCEPT !.authenticated = TRUE], r) IN
    IF g.exc = "NotAuthenticatedError"
    THEN Return([g.w EXCEPT !.authenticated = FALSE, !.cookies = EmptyJar,
                            !.store = CookieFile(EmptyJar)], PyBool(FALSE))
    ELSE IF g.exc # "" THEN g
    ELSE Return(g.w, PyBool(g.w.authenticated))

\* AuthenticationToken.save: the cookie file is rewritten from the jar.
save(w, ok) ==
    IF ok THEN Return([w EXCEPT !.store = CookieFile(w.cookies)], None)
    ELSE Raise(w, "OSError", "")

update_state(w, r) ==
    LET g == get_cchash([w EXCEPT !.authenticated = TRUE], r) IN
    IF g.exc = "NotAuthenticatedError"
    THEN Return([g.w EXCEPT !.authenticated = FALSE], PyBool(FALSE))
    ELSE IF g.exc # "" THEN g
    ELSE Return(g.w, PyBool(g.w.authenticated))

\* MozillaCookieJar.load
cookies_load(w) ==
    IF w.store.state = "absent" THEN Raise(w, "FileNotFoundError", "")
    ELSE IF w.store.state = "corrupt" THEN Raise(w, "LoadError", "")
    ELSE Return([w EXCEPT !.cookies = Merge(@, w.store.jar)], None)

\* load that probes the server whether or not the cookie file was read.
load_always_probing(w, r) ==
    LET l == cookies_load(w)
        u == update_state(l.w, IF r.net = "none"
                               THEN [net |-> "ok", e300 |-> TRUE,
                                     otherErr |-> FALSE, hash |-> None]
                               ELSE r)
    IN  IF u.exc = "" \/ IsOSError(u.exc)
        THEN Return(u.w, PyBool(u.w.authenticated))
        ELSE u

load(w, r) ==
    LET l == cookies_load(w)
        u == IF l.exc = "" THEN update_state(l.w, r) ELSE l
    IN  IF u.exc = "" \/ IsOSError(u.exc)
        THEN Return(u.w, PyBool(u.w.authenticated))
        ELSE u

\* AuthenticationToken.__init__
AuthenticationToken(w, r) ==
    load([w EXCEPT !.authenticated = FALSE, !.cookies = EmptyJar], r)

\* authenticate that takes the response's cookies whatever signedIn says.
authenticate_extract_always(w, r, saveOk) ==
    LET w1 == Send(w, prepare_request("login", w)) IN
    IF r.net # "ok" THEN Raise(w1, r.net, "")
    ELSE IF r.signedIn = None THEN Raise(w1, "AttributeError", "")
    ELSE
    LET w2 == [w1 EXCEPT !.cookies = Merge(@, r.setCookies)] IN
    IF r.signedIn # "0"
    THEN LET s == save([w2 EXCEPT !.authenticated = TRUE], saveOk)
         IN  IF s.exc # "" THEN s ELSE Return(s.w, PyBool(TRUE))
    ELSE Return(w2, PyBool(FALSE))

\* authenticate that saves the jar before taking the response's cookies.
authenticate_save_first(w, r, saveOk) ==
    LET w1 == Send(w, prepare_request("login", w)) IN
    IF r.net # "ok" THEN Raise(w1, r.net, "")
    ELSE IF r.signedIn = None THEN Raise(w1, "AttributeError", "")
    ELSE IF r.signedIn # "0"
    THEN LET s == save([w1 EXCEPT !.authenticated = TRUE], saveOk)
         IN  IF s.exc # "" THEN s
             ELSE Return([s.w EXCEPT !.cookies = Merge(@, r.setCookies)], PyBool(TRUE))
    ELSE Return(w1, PyBool(FALSE))

authenticate(w, r, saveOk) ==
    LET w1 == Send(w, prepare_request("login", w)) IN
    IF r.net # "ok" THEN Raise(w1, r.net, "")
    ELSE IF r.signedIn = None THEN Raise(w1, "AttributeError", "")
    ELSE IF r.signedIn # "0"
    THEN LET w2 == [w1 EXCEPT !.authenticated = TRUE,
                              !.cookies = Merge(@, r.setCookies)]
             s == save(w2, saveOk)
         IN  IF s.exc # "" THEN s ELSE Return(s.w, PyBool(TRUE))
    ELSE Return(w1, PyBool(FALSE))

\* ------------------------------------------------------------ strings, URLs
\* A URL is the sequence of its characters.
RECURSIVE Join(_)
Join(s) == IF s = <<>> THEN "" ELSE s[1] \o Join(Tail(s))

\* Index of the first character of s at or after position from that is in
\* set cs; Len(s) + 1 when there is none.
RECURSIVE Find(_, _, _)
Find(s, cs, from) ==
    IF from > Len(s) THEN Len(s) + 1
    ELSE IF s[from] \in cs THEN from
    ELSE Find(s, cs, from + 1)

\* Index of the last character of s that is c; 0 when there is none.
RECURSIVE RFind(_, _, _)
RFind(s, c, from) ==
    IF from = 0 THEN 0
    ELSE IF s[from] = c THEN from
    ELSE RFind(s, c, from - 1)

\* urllib.parse.urlparse(url).path: what follows "scheme://netloc" up to the
\* query or the fragment.
urlparse_path(u) ==
    LET colon == Find(u, {":"}, 1)
        slash == Find(u, {"/", "?", "#"}, 1)
        a == IF colon < slash THEN colon + 1 ELSE 1
        netloc == a + 1 <= Len(u) /\ u[a] = "/" /\ u[a + 1] = "/"
        start == IF netloc THEN Find(u, {"/", "?", "#"}, a + 2) ELSE a
        stop == Find(u, {"?", "#"}, start)
    IN  SubSeq(u, start, stop - 1)

\* str.rsplit('.', 1): one element when there is no dot, else two.
rsplit_dot(s) ==
    LET d == RFind(s, ".", Len(s)) IN
    IF d = 0 THEN <<s>> ELSE <<SubSeq(s, 1, d - 1), SubSeq(s, d + 1, Len(s))>>

\* '{}.{}'.format(str(id), format)
format_path(id, format) == ToString(id) \o "." \o format

UrlEncrypted == <<"h", "t", "t", "p", ":", "/", "/", "h", ".", "c", "/", "b", ".", "e", "p", "u", "b", "?", "v", "=", "1", ".", "2">>
UrlPlain == <<"h", "t", "t", "p", ":", "/", "/", "h", ".", "c", "/", "p", ".", "e", "p", "u", "b">>
UrlWithRights == <<"h", "t", "t", "p", ":", "/", "/", "h", ".", "c", "/", "r", ".", "e", "p", "u", "b">>
UrlPdf == <<"h", "t", "t", "p", ":", "/", "/", "h", ".", "c", "/", "v", ".", "1", "/", "b", ".", "p", "d", "f">>
UrlNoDot == <<"h", "t", "t", "p", ":", "/", "/", "h", ".", "c", "/", "b", "o", "o", "k">>
DownloadUrls == {UrlEncrypted, UrlPlain, UrlWithRights, UrlPdf, UrlNoDot}

\* urlparse(url).path.rsplit('.', 1) of each URL the server hands out.
SplitPath == [u \in DownloadUrls |-> rsplit_dot(urlparse_path(u))]

\* ------------------------------------------------------------ files, zips
\* A file's content: raw bytes that are not a zip archive (data), followed,
\* when zip is TRUE, by an archive with the given members.
EncryptionXml == "META-INF/encryption.xml"
RightsXml == "META-INF/rights.xml"

Member(name, data) == [name |-> name, data |-> data]
Archive(ms) == [zip |-> TRUE, data |-> "", members |-> ms]
Blob(d) == [zip |-> FALSE, data |-> d, members |-> <<>>]

\* str.encode(): the UTF-8 bytes of a string.
encode(str) == <<"utf-8", str>>

\* What the server keeps at each download URL.
Catalog(url) ==
    CASE url = UrlEncrypted ->
            Archive(<<Member("mimetype", encode("application/epub+zip")),
                      Member(EncryptionXml, encode("E"))>>)
      [] url = UrlPlain ->
            Archive(<<Member("mimetype", encode("application/epub+zip"))>>)
      [] url = UrlWithRights ->
            Archive(<<Member(EncryptionXml, encode("E")),
                      Member(RightsXml, encode("R0"))>>)
      [] OTHER -> Blob("%PDF")

\* ZipFile.namelist
namelist(c) == {c.members[i].name : i \in 1..Len(c.members)}

Count(c, name) == Cardinality({i \in 1..Len(c.members) : c.members[i].name = name})

\* zipfile.ZipFile(path, 'a'): a file that is not a zip archive becomes the
\* same bytes followed by an empty archive.
ZipFile_a(c) == [c EXCEPT !.zip = TRUE]

\* ZipFile.writestr: the member is appended, whatever the names present.
writestr(c, name, data) == [c EXCEPT !.members = Append(@, Member(name, data))]

Exists(d, path) == path \in DOMAIN d

\* The path download_book derives for delivery id from a download URL whose
\* path has a dot.
HasFormat(url) == Len(SplitPath[url]) = 2
FormatOf(url) == Join(SplitPath[url][2])
PathOf(id, url) == format_path(id, FormatOf(url))

\* The number of rights.xml members of the file that a download_book call
\* for id, answered with license response rl, finds at its output path
\* (0 when there is no such file).
RightsBefore(d, id, rl) ==
    IF rl.net = "ok" /\ rl.item /\ rl.errorDetails = "" /\ HasFormat(rl.url)
       /\ Exists(d, PathOf(id, rl.url))
    THEN Count(d[PathOf(id, rl.url)], RightsXml)
    ELSE 0
WriteFile(d, path, c) == [p \in DOMAIN d \cup {path} |-> IF p = path THEN c ELSE d[p]]

\* Answers to the license request.
Rights == {"R1"}
ErrorDetails == {"", "Title not available"}
LicenseResponses ==
    {r \in [net : {"ok", "URLError"}, item : BOOLEAN,
            errorDetails : ErrorDetails \cup {None},
            url : DownloadUrls \cup {<<>>}, rights : Rights \cup {None}] :
        /\ r.net = "URLError" => ~r.item
        /\ ~r.item => r.errorDetails = None
        \* the other fields are read only when errorDetails is empty
        /\ (r.url = <<>>) = (r.errorDetails # "")
        /\ (r.rights = None) = (r.errorDetails # "")}

\* Answers to the download request.
DownloadResponses(url) ==
    {[net |-> "ok", body |-> Catalog(url)], [net |-> "URLError", body |-> Blob("")]}

\* --------------------------------------------------- backend: library, books
\* Answers to the library sync request: the LockerItem entries in document
\* order, each with its DeliveryId and title.
Entry(id, title) == [DeliveryId |-> id, title |-> title]
LibraryResponses ==
    {[net |-> "URLError", entries |-> <<>>],
     [net |-> "ok", entries |-> <<>>],
     [net |-> "ok", entries |-> <<Entry(<<"1">>, "Apple"), Entry(<<"2">>, "banana")>>],
     [net |-> "ok", entries |-> <<Entry(<<"1">>, "Apple"), Entry(<<"0", "1">>, "banana")>>]}

\* int(str) for a string of decimal digits, given as the sequence of its
\* characters: leading zeros do not count.
Digit(c) == CASE c = "0" -> 0 [] c = "1" -> 1 [] c = "2" -> 2
RECURSIVE int(_)
int(str) ==
    IF Len(str) = 1 THEN Digit(str[1])
    ELSE 10 * int(SubSeq(str, 1, Len(str) - 1)) + Digit(str[Len(str)])

\* books = {}; for book in ...: books[id] = title
RECURSIVE build_books(_, _)
build_books(books, entries) ==
    IF entries = <<>> THEN books
    ELSE LET e == Head(entries)
             id == int(e.DeliveryId)
         IN  build_books([k \in DOMAIN books \cup {id} |->
                              IF k = id THEN e.title ELSE books[k]],
                         Tail(entries))

\* get_library that reads the entries from the last to the first.
get_library_backwards(w, r) ==
    IF ~w.authenticated THEN Raise(w, "NotAuthenticatedError", "")
    ELSE
    LET w1 == Send(w, prepare_request("library", w)) IN
    IF r.net # "ok" THEN Raise(w1, r.net, "")
    ELSE Return(w1, build_books(<<>>, [i \in 1..Len(r.entries) |->
                                          r.entries[Len(r.entries) + 1 - i]]))

get_library(w, r) ==
    IF ~w.authenticated THEN Raise(w, "NotAuthenticatedError", "")
    ELSE
    LET w1 == Send(w, prepare_request("library", w)) IN
    IF r.net # "ok" THEN Raise(w1, r.net, "")
    ELSE Return(w1, build_books(<<>>, r.entries))

\* get_license that raises ServerError without the server's message.
get_license_no_message(w, id, r) ==
    IF ~w.authenticated THEN Raise(w, "NotAuthenticatedError", "")
    ELSE
    LET w1 == Send(w, prepare_request("license", w)) IN
    IF r.net # "ok" THEN Raise(w1, r.net, "")
    ELSE IF ~r.item THEN Raise(w1, "AttributeError", "")
    ELSE IF r.errorDetails # "" THEN Raise(w1, "ServerError", "")
    ELSE Return(w1, [download_url |-> r.url, info_url |-> "info",
                     rights_xml |-> r.rights])

\* get_license without the check of the token's flag.
get_license_unguarded(w, id, r) ==
    LET w1 == Send(w, prepare_request("license", w)) IN
    IF r.net # "ok" THEN Raise(w1, r.net, "")
    ELSE IF ~r.item THEN Raise(w1, "AttributeError", "")
    ELSE IF r.errorDetails # "" THEN Raise(w1, "ServerError", r.errorDetails)
    ELSE Return(w1, [download_url |-> r.url, info_url |-> "info",
                     rights_xml |-> r.rights])

get_license(w, id, r) ==
    IF ~w.authenticated THEN Raise(w, "NotAuthenticatedError", "")
    ELSE
    LET w1 == Send(w, prepare_request("license", w)) IN
    IF r.net # "ok" THEN Raise(w1, r.net, "")
    ELSE IF ~r.item THEN Raise(w1, "AttributeError", "")
    ELSE IF r.errorDetails # "" THEN Raise(w1, "ServerError", r.errorDetails)
    ELSE Return(w1, [download_url |-> r.url, info_url |-> "info",
                     rights_xml |-> r.rights])

\* save_file without the check of the token's flag.
save_file_unguarded(w, url, id, path, r) ==
    LET w1 == Send(w, prepare_request("download", w)) IN
    IF r.net # "ok" THEN Raise(w1, r.net, "")
    ELSE Return([w1 EXCEPT !.disk = WriteFile(@, path, r.body)], None)

\* save_file that keeps a file already at the path.
save_file_keeping(w, url, id, path, r) ==
    IF ~w.authenticated THEN Raise(w, "NotAuthenticatedError", "")
    ELSE
    LET w1 == Send(w, prepare_request("download", w)) IN
    IF r.net # "ok" THEN Raise(w1, r.net, "")
    ELSE IF Exists(w1.disk, path) THEN Return(w1, None)
    ELSE Return([w1 EXCEPT !.disk = WriteFile(@, path, r.body)], None)

save_file(w, url, id, path, r) ==
    IF ~w.authenticated THEN Raise(w, "NotAuthenticatedError", "")
    ELSE
    LET w1 == Send(w, prepare_request("download", w)) IN
    IF r.net # "ok" THEN Raise(w1, r.net, "")
    ELSE Return([w1 EXCEPT !.disk = WriteFile(@, path, r.body)], None)

\* download_book that adds rights.xml without looking for encryption.xml.
download_book_always_injecting(w, id, rl, rd) ==
    LET l == get_license(w, id, rl) IN
    IF l.exc # "" THEN l
    ELSE
    LET license == l.val
        parts == SplitPath[license.download_url]
    IN
    IF Len(parts) < 2 THEN Raise(l.w, "IndexError", "")
    ELSE
    LET format == Join(parts[2])
        path == format_path(id, format)
        s == save_file(l.w, license.download_url, id, path, rd)
    IN
    IF s.exc # "" THEN s
    ELSE IF format # "epub" THEN Return(s.w, None)
    ELSE
    LET epub == ZipFile_a(s.w.disk[path])
        out == writestr(epub, RightsXml, encode(license.rights_xml))
    IN  Return([s.w EXCEPT !.disk = WriteFile(@, path, out)], None)

download_book(w, id, rl, rd) ==
    LET l == get_license(w, id, rl) IN
    IF l.exc # "" THEN l
    ELSE
    LET license == l.val
        parts == SplitPath[license.download_url]
    IN
    IF Len(parts) < 2 THEN Raise(l.w, "IndexError", "")
    ELSE
    LET format == Join(parts[2])
        path == format_path(id, format)
        s == save_file(l.w, license.download_url, id, path, rd)
    IN
    IF s.exc # "" THEN s
    ELSE IF format # "epub" THEN Return(s.w, None)
    ELSE
    LET epub == ZipFile_a(s.w.disk[path])
        out == IF EncryptionXml \in namelist(epub)
               THEN writestr(epub, RightsXml, encode(license.rights_xml))
               ELSE epub
    IN  Return([s.w EXCEPT !.disk = WriteFile(@, path, out)], None)

\* ------------------------------------------------------------------- state
World == [authenticated |-> authenticated, cookies |-> cookies,
          store |-> store, disk |-> disk, sent |-> <<>>]

\* The caller's call of a function that ended with outcome o.
Finish(name, in, o) ==
    /\ authenticated' = o.w.authenticated
    /\ cookies' = o.w.cookies
    /\ store' = o.w.store
    /\ disk' = o.w.disk
    /\ sent' = o.w.sent
    /\ op' = name
    /\ inp' = in
    /\ ret' = [exc |-> o.exc, val |-> o.val]

\* The frame of the command-line function that is running: the parsed
\* arguments, the arguments of cli_authenticate_interactive and the place it
\* returns to, what the last step asked the user for, and the exit status.
CliBlank ==
    [script |-> FALSE, operation |-> "none", email |-> FALSE, password |-> FALSE,
     id |-> <<>>, email_arg |-> FALSE, password_arg |-> FALSE, resume |-> "api",
     prompted |-> {}, exit |-> 0]

\* A program that imports the module and calls its functions: pc = "api"
\* between calls.
Init ==
    /\ constructed = FALSE
    /\ authenticated = FALSE
    /\ cookies = EmptyJar
    /\ store \in {NoFile, Corrupt}
    /\ disk = <<>>
    /\ valid = {}
    /\ op = "start"
    /\ inp = NoResponse
    /\ ret = [exc |-> "", val |-> None]
    /\ sent = <<>>
    /\ pc = "api"
    /\ cli = CliBlank

\* token = AuthenticationToken(path).  When __init__ raises there is no
\* token.
CallConstruct ==
    \E r \in IF store.state = "ok" THEN ProbeResponses(store.jar, valid) ELSE {NoResponse} :
        LET o == AuthenticationToken(World, r) IN
        /\ Finish("__init__", r, o)
        /\ constructed' = (o.exc = "")
        /\ UNCHANGED valid

CallAuthenticate ==
    /\ \E good \in BOOLEAN :
       \E r \in LoginResponses(good) :
       \E saveOk \in IF r.signedIn = "1" THEN BOOLEAN ELSE {TRUE} :
          /\ Finish("authenticate", [good |-> good, r |-> r, saveOk |-> saveOk], authenticate(World, r, saveOk))
          /\ valid' = IF r.signedIn = "1" THEN valid \cup {r.setCookies["sess"]} ELSE valid
          /\ UNCHANGED constructed

CallGetCchash ==
    /\ \E r \in ProbeResponses(cookies, valid) :
          /\ Finish("get_cchash", r, get_cchash(World, r))
          /\ UNCHANGED <<constructed, valid>>

CallGetLibrary ==
    /\ \E r \in IF authenticated THEN LibraryResponses ELSE {NoResponse} :
          /\ Finish("get_library", r, get_library(World, r))
          /\ UNCHANGED <<constructed, valid>>

CallDownloadBook(id) ==
    /\ \E rl \in IF authenticated THEN LicenseResponses ELSE {NoResponse} :
       \E rd \in IF rl.net = "ok" /\ rl.item /\ rl.errorDetails = ""
                 THEN DownloadResponses(rl.url) \cup {NoResponse} ELSE {NoResponse} :
          LET o == download_book(World, id, rl, rd) IN
          /\ (rd = NoResponse) = ~Reaches(o, "download")
          /\ Finish("download_book",
                    [id |-> id, rl |-> rl, rd |-> rd, had |-> RightsBefore(disk, id, rl)],
                    o)
          /\ UNCHANGED <<constructed, valid>>

\* A call by the module's user returns to the user; it asks nothing on the
\* terminal.
Api == pc' = "api" /\ cli' = CliBlank

\* A process starts.
Construct ==
    /\ pc = "api"
    /\ CallConstruct
    /\ Api

Authenticate ==
    /\ pc = "api"
    /\ constructed
    /\ CallAuthenticate
    /\ Api

UpdateState ==
    /\ pc = "api"
    /\ constructed
    /\ \E r \in ProbeResponses(cookies, valid) :
          /\ Finish("update_state", r, update_state(World, r))
          /\ UNCHANGED <<constructed, valid>>
    /\ Api

GetCchash ==
    /\ pc = "api"
    /\ constructed
    /\ CallGetCchash
    /\ Api

\* The server stops accepting a session.
ServerExpire ==
    /\ \E t \in valid : valid' = valid \ {t}
    /\ UNCHANGED <<constructed, authenticated, cookies, store, disk, op, inp, ret, sent,
                   pc, cli>>

GetLibrary ==
    /\ pc = "api"
    /\ constructed
    /\ CallGetLibrary
    /\ Api

GetLicense ==
    /\ pc = "api"
    /\ constructed
    /\ \E id \in Ids :
       \E r \in IF authenticated THEN LicenseResponses ELSE {NoResponse} :
          /\ Finish("get_license", [id |-> id, rl |-> r], get_license(World, id, r))
          /\ UNCHANGED <<constructed, valid>>
    /\ Api

SaveFile ==
    /\ pc = "api"
    /\ constructed
    /\ \E id \in Ids, url \in {UrlEncrypted, UrlPdf} :
       \E r \in IF authenticated THEN DownloadResponses(url) ELSE {NoResponse} :
          /\ HasFormat(url)
          /\ Finish("save_file", [id |-> id, url |-> url, rd |-> r],
                    save_file(World, url, id, PathOf(id, url), r))
          /\ UNCHANGED <<constructed, valid>>
    /\ Api

DownloadBook ==
    /\ pc = "api"
    /\ constructed
    /\ \E id \in Ids : CallDownloadBook(id)
    /\ Api

\* cli_authenticate_interactive up to its loop: the flag is cleared, so the
\* loop is entered.
InteractiveBegin(resume, email_arg, password_arg) ==
    /\ authenticated' = FALSE
    /\ op' = "cli_authenticate_interactive"
    /\ inp' = NoResponse
    /\ ret' = [exc |-> "", val |-> None]
    /\ sent' = <<>>
    /\ pc' = "interactive"
    /\ cli' = [cli EXCEPT !.resume = resume, !.email_arg = email_arg,
                          !.password_arg = password_arg, !.prompted = {}]
    /\ UNCHANGED <<constructed, cookies, store, disk, valid>>

\* The module's user calls cli_authenticate_interactive(token, ...).
CliAuthenticateInteractive ==
    /\ pc = "api"
    /\ constructed
    /\ \E email_arg, password_arg \in BOOLEAN :
          InteractiveBegin("api", email_arg, password_arg)

\* A loop of cli_authenticate_interactive that ends when authenticate has
\* returned, whatever the flag.
InteractiveAttempt_once ==
    /\ pc = "interactive"
    /\ CallAuthenticate
    /\ LET to == IF ret'.exc # ""
                 THEN (IF cli.resume = "api" THEN "api" ELSE "exit")
                 ELSE cli.resume
       IN  /\ pc' = to
           /\ cli' = [(IF to = "api" THEN CliBlank ELSE cli) EXCEPT
                         !.prompted = (IF cli.email_arg THEN {} ELSE {"email"})
                                      \cup (IF cli.password_arg THEN {} ELSE {"password"}),
                         !.exit = IF to = "exit" THEN 1 ELSE 0]

\* One turn of the loop of cli_authenticate_interactive: ask for what was
\* not given, call authenticate, test the flag.  An exception leaves the
\* function; in the command-line program nothing catches it.
InteractiveAttempt ==
    /\ pc = "interactive"
    /\ CallAuthenticate
    /\ LET to == IF ret'.exc # ""
                 THEN (IF cli.resume = "api" THEN "api" ELSE "exit")
                 ELSE IF authenticated' THEN cli.resume ELSE "interactive"
       IN  /\ pc' = to
           /\ cli' = [(IF to = "api" THEN CliBlank ELSE cli) EXCEPT
                         !.prompted = (IF cli.email_arg THEN {} ELSE {"email"})
                                      \cup (IF cli.password_arg THEN {} ELSE {"password"}),
                         !.exit = IF to = "exit" THEN 1 ELSE 0]

Next ==
    \/ Construct
    \/ Authenticate
    \/ UpdateState
    \/ GetCchash
    \/ GetLibrary
    \/ GetLicense
    \/ SaveFile
    \/ DownloadBook
    \/ CliAuthenticateInteractive
    \/ InteractiveAttempt
    \/ ServerExpire

Spec == Init /\ [][Next]_vars

\* ------------------------------------------------- the command-line program
\* Runs of cli_main, one after the other, on the same token file, output
\* directory and server.
\* The arguments cli_parse_args can return: -e and -p belong to login, -i to
\* download.
CliArgs ==
    {a \in [script : BOOLEAN, operation : {"login", "library", "download", "cchash"},
            email : BOOLEAN, password : BOOLEAN, id : {<<>>} \cup {<<i>> : i \in Ids}] :
        /\ a.operation # "login" => (~a.email /\ ~a.password)
        /\ a.operation # "download" => a.id = <<>>}

\* parser.error in script mode
UsageError(a) ==
    a.script /\ \/ a.operation = "login" /\ ~(a.email /\ a.password)
                \/ a.operation = "download" /\ a.id = <<>>

InitCLI ==
    /\ constructed = FALSE
    /\ authenticated = FALSE
    /\ cookies = EmptyJar
    /\ store \in {NoFile, Corrupt}
    /\ disk = <<>>
    /\ valid = {}
    /\ op = "start"
    /\ inp = NoResponse
    /\ ret = [exc |-> "", val |-> None]
    /\ sent = <<>>
    /\ pc = "start"
    /\ cli = CliBlank

\* A step of cli_main that calls nothing of the module.
NoCall ==
    UNCHANGED <<constructed, authenticated, cookies, store, disk, valid, op, inp, ret, sent>>

\* sys.exit(code), or the interpreter's exit after an uncaught exception
Exit(code) ==
    /\ pc' = "exit"
    /\ cli' = [cli EXCEPT !.exit = code, !.prompted = {}]

\* The status of the run after a call that nothing guards: 1 with the
\* traceback of an uncaught exception.
ExitAfterCall == Exit(IF ret'.exc = "" THEN 0 ELSE 1)

\* cli_parse_args rejects the arguments: argparse exits with status 2 before
\* the token is made.
CliUsageError ==
    /\ pc \in {"start", "exit"}
    /\ \E a \in CliArgs :
          /\ UsageError(a)
          /\ cli' = [CliBlank EXCEPT !.script = a.script, !.operation = a.operation,
                                     !.email = a.email, !.password = a.password,
                                     !.id = a.id, !.exit = 2]
    /\ pc' = "exit"
    /\ constructed' = FALSE
    /\ authenticated' = FALSE
    /\ cookies' = EmptyJar
    /\ op' = "cli_parse_args"
    /\ inp' = NoResponse
    /\ ret' = [exc |-> "SystemExit", val |-> None]
    /\ sent' = <<>>
    /\ UNCHANGED <<store, disk, valid>>

\* args = cli_parse_args(); token = AuthenticationToken(args.token_path)
CliStart ==
    /\ pc \in {"start", "exit"}
    /\ CallConstruct
    /\ \E a \in CliArgs :
          /\ ~UsageError(a)
          /\ cli' = [CliBlank EXCEPT !.script = a.script, !.operation = a.operation,
                                     !.email = a.email, !.password = a.password,
                                     !.id = a.id,
                                     !.exit = IF constructed' THEN 0 ELSE 1]
    /\ pc' = IF constructed' THEN "main" ELSE "exit"

\* login with both -e and -p: one call of authenticate decides.
CliLoginOnce ==
    /\ pc = "main"
    /\ cli.operation = "login"
    /\ cli.email /\ cli.password
    /\ CallAuthenticate
    /\ Exit(IF ret' = [exc |-> "", val |-> PyBool(TRUE)] THEN 0 ELSE 1)

\* login without one of -e and -p
CliLoginInteractive ==
    /\ pc = "main"
    /\ cli.operation = "login"
    /\ ~(cli.email /\ cli.password)
    /\ InteractiveBegin("login_done", cli.email, cli.password)

\* print('Login succeeded'); return 0
CliLoginSucceeded ==
    /\ pc = "login_done"
    /\ NoCall
    /\ Exit(0)

\* A script-mode run that asks for a login when the token is not
\* authenticated.
CliRefuse_prompting ==
    /\ pc = "main"
    /\ cli.operation # "login"
    /\ ~authenticated
    /\ cli.script
    /\ InteractiveBegin("operation", FALSE, FALSE)

\* Another operation in script mode with a token that is not authenticated.
CliRefuse ==
    /\ pc = "main"
    /\ cli.operation # "login"
    /\ ~authenticated
    /\ cli.script
    /\ NoCall
    /\ Exit(1)

\* Another operation with a token that is not authenticated, on a terminal.
CliLoginFirst ==
    /\ pc = "main"
    /\ cli.operation # "login"
    /\ ~authenticated
    /\ ~cli.script
    /\ InteractiveBegin("operation", FALSE, FALSE)

\* Another operation with an authenticated token.
CliProceed ==
    /\ pc = "main"
    /\ cli.operation # "login"
    /\ authenticated
    /\ NoCall
    /\ pc' = "operation"
    /\ UNCHANGED cli

CliLibrary ==
    /\ pc = "operation"
    /\ cli.operation = "library"
    /\ CallGetLibrary
    /\ ExitAfterCall

\* One turn of the loop of cli_prompt_id: 'L' lists the library, a number is
\* the id, anything else is asked again.
CliPromptId ==
    /\ pc = "operation"
    /\ cli.operation = "download"
    /\ cli.id = <<>>
    /\ \/ /\ CallGetLibrary
          /\ pc' = IF ret'.exc = "" THEN "operation" ELSE "exit"
          /\ cli' = [cli EXCEPT !.prompted = {"id"},
                                !.exit = IF ret'.exc = "" THEN 0 ELSE 1]
       \/ /\ NoCall
          /\ pc' = "operation"
          /\ \E id \in {<<>>} \cup {<<i>> : i \in Ids} :
                cli' = [cli EXCEPT !.prompted = {"id"}, !.id = id]

\* cli_download_book catches ServerError and returns False; cli_main does
\* not look at what it returns.
CliDownloadBook ==
    /\ pc = "operation"
    /\ cli.operation = "download"
    /\ cli.id # <<>>
    /\ CallDownloadBook(cli.id[1])
    /\ Exit(IF ret'.exc \in {"", "ServerError"} THEN 0 ELSE 1)

CliCchash ==
    /\ pc = "operation"
    /\ cli.operation = "cchash"
    /\ CallGetCchash
    /\ ExitAfterCall

NextCLI ==
    \/ CliUsageError
    \/ CliStart
    \/ CliLoginOnce
    \/ CliLoginInteractive
    \/ CliLoginSucceeded
    \/ CliRefuse
    \/ CliLoginFirst
    \/ CliProceed
    \/ InteractiveAttempt
    \/ CliLibrary
    \/ CliPromptId
    \/ CliDownloadBook
    \/ CliCchash
    \/ ServerExpire

SpecCLI == InitCLI /\ [][NextCLI]_vars

\* ---------------------------------------------- get_library on any listing
\* The library sync of a token built from a cookie file the server accepts,
\* answered with every listing of up to MaxEntries entries.
MaxEntries == 3
EntryChoices ==
    {Entry(id, title) : id \in {<<"1">>, <<"0", "1">>, <<"2">>},
                        title \in {"Apple", "banana"}}
Listings == UNION {[1..n -> EntryChoices] : n \in 0..MaxEntries}

InitLibrary ==
    LET jar == [sess |-> 1, aux |-> 0]
        r == [net |-> "ok", e300 |-> FALSE, otherErr |-> FALSE, hash |-> "H"]
        o == AuthenticationToken(
                 [authenticated |-> FALSE, cookies |-> EmptyJar,
                  store |-> CookieFile(jar), disk |-> <<>>, sent |-> <<>>], r)
    IN  /\ constructed = TRUE
        /\ authenticated = o.w.authenticated
        /\ cookies = o.w.cookies
        /\ store = o.w.store
        /\ disk = o.w.disk
        /\ valid = {1}
        /\ op = "__init__"
        /\ inp = r
        /\ ret = [exc |-> o.exc, val |-> o.val]
        /\ sent = o.w.sent
        /\ pc = "api"
        /\ cli = CliBlank

GetLibraryListing ==
    \E entries \in Listings :
        LET r == [net |-> "ok", entries |-> entries] IN
        /\ Finish("get_library", r, get_library(World, r))
        /\ UNCHANGED <<constructed, valid, pc, cli>>

SpecLibrary == InitLibrary /\ [][GetLibraryListing]_vars

\* ------------------------------------------------------------------ claims
Returned(v) == [exc |-> "", val |-> v]
Raised(e, m) == [exc |-> e, val |-> m]

\* The probe of the last update_state / __init__ was answered, without the
\* 300_FEEngine error and with a ccHash node.
ProbeAccepted == inp.net = "ok" /\ ~inp.e300 /\ inp.hash # None

\* C1 (as stated): every request other than the login request is sent while
\* the token's authenticated flag is true.
C1_NoRequestWhileUnauthenticated ==
    \A i \in 1..Len(sent) : sent[i].kind # "login" => sent[i].auth

\* C1 (amended): the library, license and download requests are sent only
\* while the token's authenticated flag is true, and the credit-card-hash
\* request of update_state and load is sent with the flag set; get_cchash
\* called directly sends its request whatever the flag.
C1_GuardedRequestsAuthenticated ==
    /\ \A i \in 1..Len(sent) :
          sent[i].kind \in {"library", "license", "download"} => sent[i].auth
    /\ op \in {"update_state", "__init__"} =>
          \A i \in 1..Len(sent) : sent[i].auth
    /\ (op = "get_cchash" /\ ~authenticated) => Kinds(sent) = {"cchash"}

C1_Witness ==
    /\ op = "download_book"
    /\ Kinds(sent) = {"license", "download"}
    /\ \A i \in 1..Len(sent) : sent[i].auth

\* C2: after construction the authenticated flag is true only if the probe
\* was answered and the answer accepted the persisted cookies.
C2_FlagOnlyIfServerConfirmed ==
    (op = "__init__" /\ constructed /\ authenticated) => ProbeAccepted

\* C3 (as stated): a login answered with signedIn = 1 returns true, leaves
\* the flag true and the response's cookies in the cookie file; a token
\* constructed from a cookie file whose session the server accepts is
\* authenticated without a login request.
C3_Reload ==
    (op = "__init__" /\ constructed /\ store.state = "ok"
        /\ store.jar["sess"] \in valid)
    => (authenticated /\ cookies = store.jar /\ Kinds(sent) = {"cchash"})

C3_LoginPersistsAndReloads ==
    /\ (op = "authenticate" /\ inp.r.net = "ok" /\ inp.r.signedIn = "1")
       => /\ ret = Returned(PyBool(TRUE))
          /\ authenticated
          /\ store = CookieFile(cookies)
          /\ \A n \in CookieNames :
                inp.r.setCookies[n] # 0 => store.jar[n] = inp.r.setCookies[n]
    /\ C3_Reload

\* C3 (amended): a login answered with signedIn = 1 leaves the flag true and
\* the response's cookies in the jar; when the cookie file can be written it
\* returns true and the file holds the jar, otherwise it fails with the
\* write's OSError; a token constructed from a cookie file whose session the
\* server accepts is authenticated without a login request.
C3_LoginPersistsUnlessWriteFails ==
    /\ (op = "authenticate" /\ inp.r.net = "ok" /\ inp.r.signedIn = "1")
       => /\ authenticated
          /\ \A n \in CookieNames :
                inp.r.setCookies[n] # 0 => cookies[n] = inp.r.setCookies[n]
          /\ IF inp.saveOk
             THEN ret = Returned(PyBool(TRUE)) /\ store = CookieFile(cookies)
             ELSE ret = Raised("OSError", "")
    /\ C3_Reload

C3_Witness ==
    /\ op = "__init__"
    /\ constructed
    /\ authenticated
    /\ store.state = "ok"
    /\ store.jar["sess"] \in valid
    /\ ProbeAccepted

\* C4: a login answered with signedIn = 0 returns false and changes neither
\* the flag, nor the jar, nor the cookie file.
C4_FailedLoginChangesNothing ==
    [][(op' = "authenticate" /\ inp'.r.net = "ok" /\ inp'.r.signedIn = "0")
       => /\ ret' = Returned(PyBool(FALSE))
          /\ authenticated' = authenticated
          /\ cookies' = cookies
          /\ store' = store]_vars

C4_Witness ==
    /\ op = "authenticate"
    /\ inp.r.signedIn = "0"
    /\ inp.r.setCookies # EmptyJar
    /\ authenticated
    /\ ret = Returned(PyBool(FALSE))

\* C5: update_state changes neither the jar nor the cookie file, and the
\* probe that load issues at construction does not write the cookie file.
C5_ValidateLeavesStoreAlone ==
    [][/\ op' = "update_state" => (cookies' = cookies /\ store' = store)
       /\ op' = "__init__" => store' = store]_vars

C5_Witness ==
    /\ op = "update_state"
    /\ ret = Returned(PyBool(FALSE))
    /\ ~authenticated
    /\ cookies["sess"] # 0
    /\ store = CookieFile(cookies)

\* C6 (as stated): update_state returns false with the flag false exactly
\* when the answer carries the 300_FEEngine error; for every other answer
\* received it returns true with the flag true.
C6_ValidIffNo300 ==
    (op = "update_state" /\ inp.net = "ok")
    => IF inp.e300
       THEN ret = Returned(PyBool(FALSE)) /\ ~authenticated
       ELSE ret = Returned(PyBool(TRUE)) /\ authenticated

\* C6 (amended): update_state returns false with the flag false exactly when
\* the answer carries the 300_FEEngine error; for an answer without it that
\* has the ccHash node it returns true with the flag true; for an answer
\* with neither it raises AttributeError and leaves the flag true.
C6_ValidIffNo300AndHash ==
    (op = "update_state" /\ inp.net = "ok")
    => /\ inp.e300 => (ret = Returned(PyBool(FALSE)) /\ ~authenticated)
       /\ (~inp.e300 /\ inp.hash # None)
             => (ret = Returned(PyBool(TRUE)) /\ authenticated)
       /\ (~inp.e300 /\ inp.hash = None)
             => (ret = Raised("AttributeError", "") /\ authenticated)

C6_Witness ==
    /\ op = "update_state"
    /\ inp.net = "ok"
    /\ inp.otherErr
    /\ inp.hash = None
    /\ ret = Raised("AttributeError", "")
    /\ authenticated

\* The last download_book call returned: the license response was usable
\* and the download was answered.
Downloaded == op = "download_book" /\ ret.exc = ""
SavedPath == PathOf(inp.id, inp.rl.url)

\* C7: a license response whose error node has a non-empty errorDetails
\* makes get_license, and download_book with it, raise ServerError with
\* exactly that string; no download request is sent and no file is created
\* or changed.
C7_ServerErrorSurfaced ==
    [][(op' \in {"get_license", "download_book"} /\ inp'.rl.net = "ok"
          /\ inp'.rl.item /\ inp'.rl.errorDetails \notin {"", None})
       => /\ ret' = Raised("ServerError", inp'.rl.errorDetails)
          /\ Kinds(sent') = {"license"}
          /\ disk' = disk]_vars

C7_Witness ==
    /\ op = "download_book"
    /\ inp.rl.net = "ok"
    /\ inp.rl.errorDetails = "Title not available"
    /\ ret = Raised("ServerError", "Title not available")
    /\ ~Exists(disk, format_path(inp.id, "epub"))

\* C8: a download_book call that succeeds returns the path of the saved
\* file, '{deliveryId}.{format}'.
C8_ReturnsSavedPath ==
    Downloaded => (ret.val = SavedPath /\ Exists(disk, SavedPath))

\* C9: after a download_book call that succeeds, the saved file holds the
\* downloaded members, unchanged and in order, followed by one rights.xml
\* member with the license's rights manifest when the format is epub and
\* the download has an encryption.xml member; otherwise it holds exactly the
\* download; no other file is touched.
C9_InjectionConditionalAdditive ==
    [][(op' = "download_book" /\ ret'.exc = "")
       => LET path == PathOf(inp'.id, inp'.rl.url)
              body == inp'.rd.body
          IN  /\ Exists(disk', path)
              /\ IF FormatOf(inp'.rl.url) = "epub" /\ EncryptionXml \in namelist(body)
                 THEN /\ disk'[path].members =
                            Append(body.members,
                                   Member(RightsXml, encode(inp'.rl.rights)))
                      /\ RightsXml \notin namelist(body)
                            => Count(disk'[path], RightsXml) = 1
                 ELSE disk'[path] = body
              /\ \A p \in DOMAIN disk' \ {path} : Exists(disk, p) /\ disk'[p] = disk[p]]_vars

C9_Witness ==
    /\ Downloaded
    /\ inp.rl.url = UrlEncrypted
    /\ Count(disk[SavedPath], RightsXml) = 1
    /\ Exists(disk, format_path(inp.id, "pdf"))

\* C10 (as stated): a download_book call that finds one rights.xml in the
\* file at its output path and injects leaves the file with two rights.xml
\* members.
C10_RerunAppendsSecondRights ==
    (Downloaded /\ FormatOf(inp.rl.url) = "epub" /\ inp.had = 1
        /\ EncryptionXml \in namelist(inp.rd.body))
    => Count(disk[SavedPath], RightsXml) = 2

\* C10 (amended): a download_book call that finds rights.xml in the file at
\* its output path replaces that file by the fresh download before
\* injecting, so the file ends with the download's rights.xml members plus
\* the one injected when the download has encryption.xml: running the same
\* download twice leaves one injected rights.xml, not two.
C10_RerunReplacesFile ==
    (Downloaded /\ FormatOf(inp.rl.url) = "epub" /\ inp.had >= 1)
    => Count(disk[SavedPath], RightsXml) =
          Count(inp.rd.body, RightsXml)
          + (IF EncryptionXml \in namelist(inp.rd.body) THEN 1 ELSE 0)

C10_Witness ==
    /\ Downloaded
    /\ inp.rl.url = UrlEncrypted
    /\ inp.had = 1
    /\ Count(disk[SavedPath], RightsXml) = 1

\* C12: get_library, get_license, save_file and download_book called on a
\* token whose flag is false raise NotAuthenticatedError without sending a
\* request and leave the flag, the jar, the cookie file and every output
\* file as they were.
C12_UnauthenticatedCallRefused ==
    [][(op' \in {"get_library", "get_license", "save_file", "download_book"}
          /\ ~authenticated)
       => /\ ret' = Raised("NotAuthenticatedError", "")
          /\ sent' = <<>>
          /\ UNCHANGED <<authenticated, cookies, store, disk>>]_vars

C12_Witness ==
    /\ op = "save_file"
    /\ ~authenticated
    /\ cookies["sess"] # 0
    /\ ret = Raised("NotAuthenticatedError", "")
    /\ sent = <<>>

\* The response to the last request of the last call, when that call sent
\* a request.
LastResponse ==
    CASE op = "authenticate" -> inp.r
      [] op \in {"__init__", "update_state", "get_cchash", "get_library"} -> inp
      [] op = "get_license" -> inp.rl
      [] op = "save_file" -> inp.rd
      [] op = "download_book" -> IF inp.rd.net = "none" THEN inp.rl ELSE inp.rd
      [] OTHER -> NoResponse

\* C13: a call whose request fails with a transport error raises that
\* error to its caller, having sent the failing request once; this includes
\* the probe sent by load during construction.
C13_TransportErrorPropagates ==
    (sent # <<>> /\ LastResponse.net = "URLError")
    => /\ ret = Raised("URLError", "")
       /\ \A i, j \in 1..Len(sent) : sent[i].kind = sent[j].kind => i = j

\* C18: construction sends the probe, once, exactly when the cookie file
\* was read; with the cookie file absent or unreadable it sends nothing,
\* raises nothing and leaves the token unauthenticated.
C18_ProbeIffStoreLoaded ==
    op = "__init__"
    => IF store.state = "ok"
       THEN Len(sent) = 1 /\ sent[1].kind = "cchash" /\ sent[1].cookie = store.jar
       ELSE sent = <<>> /\ constructed /\ ~authenticated
            /\ ret = Returned(PyBool(FALSE)) /\ cookies = EmptyJar

C18_Witness ==
    /\ op = "__init__"
    /\ store.state = "corrupt"
    /\ constructed
    /\ ~authenticated
    /\ sent = <<>>

\* C19: a call of authenticate, returning or raising, turns the flag from
\* false to true only when it has merged the response's cookies into the
\* jar and written the jar to the cookie file.
C19_FlagOnlyWithPersistedCookies ==
    [][(op' = "authenticate" /\ ~authenticated /\ authenticated')
       => /\ cookies' = Merge(cookies, inp'.r.setCookies)
          /\ store' = CookieFile(cookies')]_vars

\* The ids of a listing, as get_library reads them.
IdOf(e) == int(e.DeliveryId)

\* C15: the mapping get_library returns has the ids of the response's
\* entries as its keys and gives each id the title of the last entry with
\* that id; entries with distinct ids give as many keys as entries; no key
\* or title of an earlier call remains.
C15_LastWriteWins ==
    (op = "get_library" /\ ret.exc = "")
    => LET books == ret.val
           es == inp.entries
       IN  /\ DOMAIN books = {IdOf(es[i]) : i \in 1..Len(es)}
           /\ \A i \in 1..Len(es) :
                 (\A j \in (i + 1)..Len(es) : IdOf(es[j]) # IdOf(es[i]))
                 => books[IdOf(es[i])] = es[i].title
           /\ (\A i, j \in 1..Len(es) : IdOf(es[i]) = IdOf(es[j]) => i = j)
              => Cardinality(DOMAIN books) = Len(es)

C15_Witness ==
    /\ op = "get_library"
    /\ ret.exc = ""
    /\ Len(inp.entries) = 3
    /\ inp.entries[1] = Entry(<<"1">>, "Apple")
    /\ inp.entries[2] = Entry(<<"2">>, "Apple")
    /\ inp.entries[3] = Entry(<<"0", "1">>, "banana")
    /\ ret.val[1] = "banana"
    /\ ret.val[2] = "Apple"

\* C16 (as stated, its last clause): the flag of a token goes from true to
\* false only in a call of update_state whose probe reported an invalid
\* session.  (A step of __init__ starts a new token.)
C16_ClearedOnlyByProbe ==
    [][(authenticated /\ ~authenticated' /\ op' # "__init__")
       => (op' = "update_state" /\ inp'.e300)]_vars

\* C16 (amended): the flag of a token changes only from false to true in a
\* call of authenticate answered with signedIn = 1, from true to false in a
\* call of update_state whose probe reported an invalid session, from false
\* to true in a call of update_state (alone or in load during construction,
\* which needs a cookie file that was read) whose probe did not report one,
\* and from true to false at the start of cli_authenticate_interactive.
C16_FlagTransitions ==
    [][(authenticated' # authenticated)
       => \/ /\ op' = "__init__"
             /\ authenticated' => (store.state = "ok" /\ ~inp'.e300)
          \/ /\ op' = "authenticate"
             /\ authenticated'
             /\ inp'.r.signedIn = "1"
          \/ /\ op' = "update_state"
             /\ authenticated' = ~inp'.e300
          \/ /\ op' = "cli_authenticate_interactive"
             /\ ~authenticated']_vars

C16_Witness ==
    /\ pc = "interactive"
    /\ op = "cli_authenticate_interactive"
    /\ ~authenticated
    /\ cookies["sess"] \in valid

\* C17: cli_authenticate_interactive returns only with the flag true; each
\* turn of its loop sends one login request; a turn whose login the server
\* accepts is the last one; the loop goes on only with the flag false.
C17_ReturnsOnlyAuthenticated ==
    [][(pc = "interactive" /\ op' = "authenticate")
       => /\ Len(sent') = 1
          /\ sent'[1].kind = "login"
          /\ (pc' # "interactive" /\ ret'.exc = "") => authenticated'
          /\ inp'.r.signedIn = "1" => pc' # "interactive"
          /\ pc' = "interactive" => (~authenticated' /\ ret' = Returned(PyBool(FALSE)))]_vars

C17_Witness ==
    /\ pc = "api"
    /\ op = "authenticate"
    /\ cli.prompted = {"email", "password"}
    /\ ret = Returned(PyBool(TRUE))
    /\ authenticated

\* The run's operation was carried out.
Succeeded ==
    \/ cli.operation = "login" /\ op = "authenticate" /\ ret = Returned(PyBool(TRUE))
    \/ cli.operation = "library" /\ op = "get_library" /\ ret.exc = ""
    \/ cli.operation = "download" /\ op = "download_book" /\ ret.exc = ""
    \/ cli.operation = "cchash" /\ op = "get_cchash" /\ ret.exc = ""

\* C11: a run of the command-line program whose arguments were accepted
\* exits with 0 when its operation was carried out and with 1 otherwise; a
\* download that failed with ServerError exits with 1.
C11_ExitCodeReflectsOutcome ==
    (pc = "exit" /\ cli.exit # 2)
    => /\ cli.exit = (IF Succeeded THEN 0 ELSE 1)
       /\ (op = "download_book" /\ ret.exc = "ServerError") => cli.exit = 1

\* C11, leaving out the downloads that failed with ServerError.
C11_ExitCodeButForServerError ==
    (pc = "exit" /\ cli.exit # 2 /\ ~(op = "download_book" /\ ret.exc = "ServerError"))
    => cli.exit = (IF Succeeded THEN 0 ELSE 1)

\* A login attempt of the command-line program that the server refused.
FailedLoginStep ==
    /\ pc \in {"main", "interactive"}
    /\ op' = "authenticate"
    /\ ret' = Returned(PyBool(FALSE))

\* A step of a script-mode run that finds the cached session invalid.
InvalidSessionStep ==
    /\ pc = "main"
    /\ pc' # "main"
    /\ cli.script
    /\ cli.operation # "login"
    /\ ~authenticated

\* C14 (as stated): in a run without -s every refused login is followed by
\* a new prompt and attempt, whatever -e and -p were given; in a run with -s
\* a refused login, or an invalid cached session for another operation, ends
\* the run with status 1 without a prompt and without a further request.
C14_FailedLoginRepromptsOrEnds ==
    [][/\ (FailedLoginStep /\ ~cli.script) => pc' = "interactive"
       /\ ((FailedLoginStep \/ InvalidSessionStep) /\ cli.script)
          => (pc' = "exit" /\ cli'.exit = 1 /\ cli'.prompted = {})]_vars

\* C14 (amended): a refused login in the loop of cli_authenticate_interactive
\* (a run without -s and without one of -e and -p, or another operation
\* without a valid session) has asked for what was not given and leaves the
\* program in the loop; a refused login with both -e and -p, with or
\* without -s, ends the run with status 1 and no prompt; a script-mode run
\* that finds the session invalid ends with status 1 having called nothing
\* after construction; a script-mode run never prompts.
C14_LoginFailureInCLI ==
    [][/\ (FailedLoginStep /\ pc = "interactive")
          => /\ pc' = "interactive"
             /\ ~cli.script
             /\ ~(cli.email_arg /\ cli.password_arg)
             /\ cli'.prompted = (IF cli.email_arg THEN {} ELSE {"email"})
                                \cup (IF cli.password_arg THEN {} ELSE {"password"})
             /\ cli'.email_arg = cli.email_arg
             /\ cli'.password_arg = cli.password_arg
       /\ (FailedLoginStep /\ pc = "main")
          => /\ cli.email /\ cli.password
             /\ pc' = "exit"
             /\ cli'.exit = 1
             /\ cli'.prompted = {}
             /\ \A i \in 1..Len(sent') : sent'[i].kind = "login"
       /\ InvalidSessionStep
          => /\ pc' = "exit"
             /\ cli'.exit = 1
             /\ cli'.prompted = {}
             /\ op' = "__init__"
             /\ UNCHANGED sent
       /\ cli'.script => (cli'.prompted = {} /\ pc' \notin {"interactive", "login_done"})]_vars

C14_Witness ==
    /\ pc = "interactive"
    /\ op = "authenticate"
    /\ ret = Returned(PyBool(FALSE))
    /\ cli.operation = "login"
    /\ ~cli.script
    /\ cli.email
    /\ ~cli.password
    /\ cli.prompted = {"password"}

====
